---- MODULE Spec2Model ----
(***************************************************************************)
(* A model of scitool: the Book entity graph of src/src/book.rs (entry     *)
(* tables, composite identifiers, navigation handles) and the resource     *)
(* commands of src/src/main.rs (ResourceStore, list, extract-as-patch),    *)
(* the TempStore of src/crates/utils/src/block/temp_store.rs and the       *)
(* progress reader of src/crates/fan_dub_cli/src/tools/ffmpeg.rs.          *)
(*                                                                         *)
(* BookSpec explores the navigation API over every Book within the bounds. *)
(* TalkerSpec explores it over Books whose talker and role tables vary.    *)
(* Spec explores the resource commands over every archive within the       *)
(* bounds.  TempSpec explores the stores of one TempStore, FfmpegSpec the  *)
(* lines one ffmpeg child prints.                                          *)
(***************************************************************************)
EXTENDS Integers, Sequences, FiniteSets, TLC

VARIABLES
    book,       \* the Book: roles, talkers, verbs, rooms (immutable once built)
    cur,        \* the handle the caller of the Book API holds
    ret,        \* the last Book API call and what it returned
    archive,    \* the main store on disk: map file, data file, indexed records
    fs,         \* the patch files on disk: path -> bytes
    args,       \* the parsed command line
    pc,         \* where the command's run() is
    store,      \* Option<ResourceStore> of the run
    contents,   \* Option<Contents> read_resource returned
    ext,        \* Option<extension> the match on the resource type chose
    patch_file, \* Option<path> of the open patch file
    io,         \* the file-system and index accesses made so far, in order
    items,      \* the items read_raw_contents() has yielded so far
    stdout,     \* the lines printed
    result,     \* Option<outcome> of main
    temp_dir,   \* the files of the TempStore's directory: path -> bytes
    sources,    \* the BlockSources the TempStore has returned, in call order
    buffers,    \* the buffers the TempStore was given, in call order
    ff_stdout,  \* the lines read from the ffmpeg child's stdout, in order
    progress_info, \* the pairs the reader holds since the last report
    progress,   \* the on_progress calls the listener has received, in order
    ff_pc       \* where the reader task of convert() is

bookVars == <<book, cur, ret>>
cliVars ==
    <<archive, fs, args, pc, store, contents, ext, patch_file, io, items,
      stdout, result>>
tempVars == <<temp_dir, sources, buffers>>
ffVars == <<ff_stdout, progress_info, progress, ff_pc>>
toolVars == <<tempVars, ffVars>>
vars == <<bookVars, cliVars, toolVars>>

----------------------------------------------------------------------------
(* Bounds of the Book part.                                                *)

MaxRoom == 2
MaxNoun == 2
MaxVerb == 1
MaxCond == 1
MaxSeq == 2
MaxMsgs == 2
MaxCondEntries == 1
MaxVerbEntries == 1

RawRoomIds == 1..MaxRoom
RawNounIds == 1..MaxNoun
RawVerbIds == 0..MaxVerb
RawConditionIds == 0..MaxCond
RawSequenceIds == 1..MaxSeq
RawTalkerIds == {1}
RawRoleIds == {"narrator"}

----------------------------------------------------------------------------
(* Option<T>: None is the empty sequence, Some(x) the one-element one.     *)

None == <<>>
Some(x) == <<x>>
IsSome(o) == Len(o) = 1
Unwrap(o) == o[1]

(* builder::ConversationKey: the (verb, condition) pair and its accessors. *)
ConversationKey(v, c) == [verb |-> v, condition |-> c]
Key_verb(k) == k.verb
Key_condition(k) == k.condition

(* Ord of the raw identifiers (derived on a one-field tuple struct).       *)
RawLess(a, b) == a < b

(* Ord of ConversationKey: compared as (verb, condition).                  *)
KeyLess(a, b) ==
    \/ Key_verb(a) < Key_verb(b)
    \/ Key_verb(a) = Key_verb(b) /\ Key_condition(a) < Key_condition(b)

----------------------------------------------------------------------------
(* BTreeMap<K, V> is a function from its keys; iter() walks the keys in    *)
(* ascending order of K's Ord.                                             *)

RECURSIVE AscendingRaw(_, _)
AscendingRaw(S, acc) ==
    IF S = {} THEN acc
    ELSE LET least == CHOOSE x \in S : \A y \in S : y = x \/ RawLess(x, y)
         IN  AscendingRaw(S \ {least}, Append(acc, least))

RECURSIVE AscendingKeys(_, _)
AscendingKeys(S, acc) ==
    IF S = {} THEN acc
    ELSE LET least == CHOOSE x \in S : \A y \in S : y = x \/ KeyLess(x, y)
         IN  AscendingKeys(S \ {least}, Append(acc, least))

(* iter() of a map keyed by a raw identifier / by ConversationKey.         *)
BTreeMap_iter(m) == AscendingRaw(DOMAIN m, <<>>)
BTreeMap_iter_keys(m) == AscendingKeys(DOMAIN m, <<>>)

EmptyMap == [x \in {} |-> x]

----------------------------------------------------------------------------
(* References into Book-owned storage.  A reference &'a Entry is the place *)
(* of the entry: the map it lives in (reached from the reference of the    *)
(* owning entry) and its key.                                              *)

BookRef == [kind |-> "Book"]
EntryRef(base, field, key) ==
    [kind |-> "Entry", base |-> base, field |-> field, key |-> key]

RECURSIVE Deref(_)
Deref(ref) ==
    IF ref.kind = "Book" THEN book
    ELSE Deref(ref.base)[ref.field][ref.key]

(* BTreeMap::get on the map `field` of the entry behind `base`.            *)
BTreeMap_get(base, field, key) ==
    IF key \in DOMAIN Deref(base)[field]
    THEN Some(EntryRef(base, field, key))
    ELSE None

----------------------------------------------------------------------------
(* Handles (book.rs 128-447): parent handle, raw id, reference to entry.   *)

Handle(kind, parent, raw_id, entry) ==
    [kind |-> kind, parent |-> parent, raw_id |-> raw_id, entry |-> entry]

(* Public composite identifiers, as the tuple structs of book.rs 48-70.    *)
Room_id(h) == <<h.raw_id>>
Noun_id(h) == <<Room_id(h.parent), h.raw_id>>
Condition_id(h) == <<Room_id(h.parent), h.raw_id>>
Conversation_id(h) == <<Noun_id(h.parent), h.raw_id>>
Line_id(h) == <<Conversation_id(h.parent), h.raw_id>>

HandleId(h) ==
    CASE h.kind = "Room" -> Room_id(h)
      [] h.kind = "Noun" -> Noun_id(h)
      [] h.kind = "Condition" -> Condition_id(h)
      [] h.kind = "Conversation" -> Conversation_id(h)
      [] h.kind = "Line" -> Line_id(h)

(* The iterators: one handle per (key, entry) of the map, in iter() order. *)
Children(kind, parent, field, keys) ==
    [i \in 1..Len(keys) |->
        Handle(kind, parent, keys[i], EntryRef(parent.entry, field, keys[i]))]

Book_rooms ==
    LET keys == BTreeMap_iter(book.rooms)
    IN  [i \in 1..Len(keys) |->
            Handle("Room", BookRef, keys[i], EntryRef(BookRef, "rooms", keys[i]))]

Room_nouns(room) ==
    Children("Noun", room, "nouns", BTreeMap_iter(Deref(room.entry).nouns))

Room_conditions(room) ==
    Children("Condition", room, "conditions",
             BTreeMap_iter(Deref(room.entry).conditions))

(* A variant that walks the conversations from the greatest key down.      *)
Noun_conversations_descending(noun) ==
    LET up == BTreeMap_iter_keys(Deref(noun.entry).conversations)
    IN  Children("Conversation", noun, "conversations",
                 [i \in 1..Len(up) |-> up[Len(up) + 1 - i]])

Noun_conversations(noun) ==
    Children("Conversation", noun, "conversations",
             BTreeMap_iter_keys(Deref(noun.entry).conversations))

Conversation_lines(conv) ==
    Children("Line", conv, "lines", BTreeMap_iter(Deref(conv.entry).lines))

(* The *_inner lookups: BTreeMap::get, then the handle around its entry.   *)
InnerGet(kind, parent, field, raw_id) ==
    LET e == BTreeMap_get(parent.entry, field, raw_id)
    IN  IF IsSome(e) THEN Some(Handle(kind, parent, raw_id, Unwrap(e))) ELSE None

Room_get_condition_inner(room, raw_id) ==
    InnerGet("Condition", room, "conditions", raw_id)

Room_get_noun_inner(room, raw_id) == InnerGet("Noun", room, "nouns", raw_id)

Noun_get_conversation_inner(noun, raw_id) ==
    InnerGet("Conversation", noun, "conversations", raw_id)

Conversation_get_line_inner(conv, raw_id) ==
    InnerGet("Line", conv, "lines", raw_id)

(* Option::and_then.                                                       *)
Book_get_room(id) ==
    LET e == BTreeMap_get(BookRef, "rooms", id[1])
    IN  IF IsSome(e) THEN Some(Handle("Room", BookRef, id[1], Unwrap(e))) ELSE None

Book_get_condition(id) ==
    LET room == Book_get_room(id[1])
    IN  IF IsSome(room) THEN Room_get_condition_inner(Unwrap(room), id[2]) ELSE None

(* A variant that looks the noun up in the first room, not in room id.0.   *)
Book_get_noun_first_room(id) ==
    IF Len(Book_rooms) = 0 THEN None
    ELSE Room_get_noun_inner(Book_rooms[1], id[2])

Book_get_noun(id) ==
    LET room == Book_get_room(id[1])
    IN  IF IsSome(room) THEN Room_get_noun_inner(Unwrap(room), id[2]) ELSE None

Book_get_conversation(id) ==
    LET noun == Book_get_noun(id[1])
    IN  IF IsSome(noun) THEN Noun_get_conversation_inner(Unwrap(noun), id[2]) ELSE None

Book_get_line(id) ==
    LET conv == Book_get_conversation(id[1])
    IN  IF IsSome(conv) THEN Conversation_get_line_inner(Unwrap(conv), id[2]) ELSE None

Book_get_verb(id) ==
    LET e == BTreeMap_get(BookRef, "verbs", id[1])
    IN  IF IsSome(e) THEN Some(Handle("Verb", BookRef, id[1], Unwrap(e))) ELSE None

(* The top-level lookup that matches a handle's kind.                      *)
Book_get(kind, id) ==
    CASE kind = "Room" -> Book_get_room(id)
      [] kind = "Noun" -> Book_get_noun(id)
      [] kind = "Condition" -> Book_get_condition(id)
      [] kind = "Conversation" -> Book_get_conversation(id)
      [] kind = "Line" -> Book_get_line(id)

(* A call's outcome: it returned a value, or it panicked.                  *)
Returned(v) == [status |-> "returned", val |-> v]
Panicked(msg) == [status |-> "panicked", val |-> msg]

(* Option::unwrap / Option::expect.                                        *)
UnwrapOr(o, msg) == IF IsSome(o) THEN Returned(o) ELSE Panicked(msg)

(* A variant without the zero check: key 0 is looked up like any other.    *)
Conversation_verb_no_zero_check(conv) ==
    LET v == Book_get_verb(<<Key_verb(conv.raw_id)>>)
    IN  IF IsSome(v) THEN Returned(v) ELSE Returned(None)

Conversation_verb(conv) ==
    IF Key_verb(conv.raw_id) = 0 THEN Returned(None)
    ELSE UnwrapOr(Book_get_verb(<<Key_verb(conv.raw_id)>>), "unwrap on None")

Conversation_condition(conv) ==
    IF Key_condition(conv.raw_id) = 0 THEN Returned(None)
    ELSE UnwrapOr(Room_get_condition_inner(conv.parent.parent,
                                           Key_condition(conv.raw_id)),
                  "Condition has already been cleared")

----------------------------------------------------------------------------
(* The Book builder (book/builder.rs): one message record per line,        *)
(* filed under room / noun / (verb, condition) / sequence; a condition     *)
(* entry per configured condition; a verb entry per configured verb.       *)

Messages ==
    [room : RawRoomIds, noun : RawNounIds, verb : RawVerbIds,
     condition : RawConditionIds, seq : RawSequenceIds, talker : RawTalkerIds]

ConditionDecls == [room : RawRoomIds, condition : RawConditionIds]

RECURSIVE SubsetsUpTo(_, _)
SubsetsUpTo(S, n) ==
    IF n = 0 THEN {{}}
    ELSE LET P == SubsetsUpTo(S, n - 1)
         IN  P \cup {p \cup {x} : p \in P, x \in S}

LineEntryOf(m) == [text |-> "text", talker |-> m.talker]

ConversationEntryOf(ms) ==
    [lines |-> [s \in {m.seq : m \in ms} |->
                    LineEntryOf(CHOOSE m \in ms : m.seq = s)]]

NounEntryOf(ms) ==
    [desc |-> None,
     conversations |->
        [k \in {ConversationKey(m.verb, m.condition) : m \in ms} |->
            ConversationEntryOf({m \in ms :
                ConversationKey(m.verb, m.condition) = k})]]

RoomEntryOf(ms, conds) ==
    [name |-> None,
     conditions |-> [c \in {d.condition : d \in conds} |-> [builder |-> None]],
     nouns |-> [n \in {m.noun : m \in ms} |->
                    NounEntryOf({m \in ms : m.noun = n})]]

BuildBook(ms, conds, verbs) ==
    [roles |-> [r \in RawRoleIds |-> [name |-> r, short_name |-> r]],
     talkers |-> [t \in RawTalkerIds |-> [role_id |-> "narrator"]],
     verbs |-> [v \in verbs |-> [name |-> "verb"]],
     rooms |-> [r \in {m.room : m \in ms} \cup {d.room : d \in conds} |->
                    RoomEntryOf({m \in ms : m.room = r},
                                {d \in conds : d.room = r})]]

Books(max_msgs) ==
    {BuildBook(ms, conds, verbs) :
        ms \in SubsetsUpTo(Messages, max_msgs),
        conds \in SubsetsUpTo(ConditionDecls, MaxCondEntries),
        verbs \in SubsetsUpTo(RawVerbIds, MaxVerbEntries)}

----------------------------------------------------------------------------
(* The caller of the Book API.                                             *)

NoHandle == [kind |-> "None"]
NoCall == [op |-> "none"]
Call(op, recv, out) == [op |-> op, recv |-> recv, out |-> out]

IterOps ==
    {"Book::rooms", "Room::nouns", "Room::conditions",
     "Noun::conversations", "Conversation::lines", "Book::lines"}
GetOps ==
    {"Book::get_room", "Book::get_noun", "Book::get_condition",
     "Book::get_conversation", "Book::get_line"}

BookInit ==
    /\ book \in Books(MaxMsgs)
    /\ cur = NoHandle
    /\ ret = NoCall

CallRooms ==
    /\ ret' = Call("Book::rooms", BookRef, Returned(Book_rooms))
    /\ UNCHANGED <<book, cur, cliVars, toolVars>>

CallNouns ==
    /\ cur.kind = "Room"
    /\ ret' = Call("Room::nouns", cur, Returned(Room_nouns(cur)))
    /\ UNCHANGED <<book, cur, cliVars, toolVars>>

CallConditions ==
    /\ cur.kind = "Room"
    /\ ret' = Call("Room::conditions", cur, Returned(Room_conditions(cur)))
    /\ UNCHANGED <<book, cur, cliVars, toolVars>>

CallConversations ==
    /\ cur.kind = "Noun"
    /\ ret' = Call("Noun::conversations", cur, Returned(Noun_conversations(cur)))
    /\ UNCHANGED <<book, cur, cliVars, toolVars>>

CallLines ==
    /\ cur.kind = "Conversation"
    /\ ret' = Call("Conversation::lines", cur, Returned(Conversation_lines(cur)))
    /\ UNCHANGED <<book, cur, cliVars, toolVars>>

(* The caller keeps the i-th handle a call yielded and drops the rest.     *)
Take ==
    /\ ret.op \in IterOps
    /\ \E i \in 1..Len(ret.out.val) : cur' = ret.out.val[i]
    /\ ret' = NoCall
    /\ UNCHANGED <<book, cliVars, toolVars>>

(* Line::conversation, Conversation::noun, Noun::room, Condition::room.    *)
CallParent ==
    /\ cur.kind \in {"Line", "Conversation", "Noun", "Condition"}
    /\ cur' = cur.parent
    /\ ret' = NoCall
    /\ UNCHANGED <<book, cliVars, toolVars>>

CallGetRoom ==
    /\ cur.kind = "Room"
    /\ ret' = Call("Book::get_room", cur, Returned(Book_get_room(Room_id(cur))))
    /\ UNCHANGED <<book, cur, cliVars, toolVars>>

CallGetNoun ==
    /\ cur.kind = "Noun"
    /\ ret' = Call("Book::get_noun", cur, Returned(Book_get_noun(Noun_id(cur))))
    /\ UNCHANGED <<book, cur, cliVars, toolVars>>

CallGetCondition ==
    /\ cur.kind = "Condition"
    /\ ret' = Call("Book::get_condition", cur,
                   Returned(Book_get_condition(Condition_id(cur))))
    /\ UNCHANGED <<book, cur, cliVars, toolVars>>

CallGetConversation ==
    /\ cur.kind = "Conversation"
    /\ ret' = Call("Book::get_conversation", cur,
                   Returned(Book_get_conversation(Conversation_id(cur))))
    /\ UNCHANGED <<book, cur, cliVars, toolVars>>

CallGetLine ==
    /\ cur.kind = "Line"
    /\ ret' = Call("Book::get_line", cur, Returned(Book_get_line(Line_id(cur))))
    /\ UNCHANGED <<book, cur, cliVars, toolVars>>

CallVerb ==
    /\ cur.kind = "Conversation"
    /\ ret' = Call("Conversation::verb", cur, Conversation_verb(cur))
    /\ UNCHANGED <<book, cur, cliVars, toolVars>>

CallCondition ==
    /\ cur.kind = "Conversation"
    /\ ret' = Call("Conversation::condition", cur, Conversation_condition(cur))
    /\ UNCHANGED <<book, cur, cliVars, toolVars>>

NextBook ==
    \/ CallRooms
    \/ CallNouns
    \/ CallConditions
    \/ CallConversations
    \/ CallLines
    \/ Take
    \/ CallParent
    \/ CallGetRoom
    \/ CallGetNoun
    \/ CallGetCondition
    \/ CallGetConversation
    \/ CallGetLine
    \/ CallVerb
    \/ CallCondition


----------------------------------------------------------------------------
(* Claims about the Book.                                                  *)

(* The handles a call of an iterator has yielded.                          *)
Yielded == IF ret.op \in IterOps THEN {ret.out.val[i] : i \in 1..Len(ret.out.val)}
           ELSE {}

RoundTrips(h) ==
    LET r == Book_get(h.kind, HandleId(h))
    IN  /\ IsSome(r)
        /\ Unwrap(r).kind = h.kind
        /\ Unwrap(r).entry = h.entry
        /\ HandleId(Unwrap(r)) = HandleId(h)

(* C1: every handle reached by downward iteration resolves, through the    *)
(* top-level lookup on its id(), to Some handle on the same entry with the *)
(* same id; and every such lookup the caller made returned exactly that.   *)
C1_IdRoundTrip ==
    /\ \A h \in Yielded : RoundTrips(h)
    /\ cur.kind \in {"Room", "Noun", "Condition", "Conversation", "Line"}
          => RoundTrips(cur)
    /\ ret.op \in GetOps =>
          /\ ret.out.status = "returned"
          /\ IsSome(ret.out.val)
          /\ Unwrap(ret.out.val).entry = ret.recv.entry
          /\ HandleId(Unwrap(ret.out.val)) = HandleId(ret.recv)

(* C1 witness: get_line on the id of a line of the second room's second    *)
(* noun has returned.                                                      *)
C1_Witness ==
    /\ ret.op = "Book::get_line"
    /\ IsSome(ret.out.val)
    /\ ret.recv.parent.parent.raw_id = MaxNoun
    /\ ret.recv.parent.parent.parent.raw_id = MaxRoom

(* The keys of the handles a call yielded, in the order yielded.           *)
YieldedKeys == [i \in 1..Len(ret.out.val) |-> ret.out.val[i].raw_id]

OrderedField ==
    CASE ret.op = "Room::nouns" -> "nouns"
      [] ret.op = "Noun::conversations" -> "conversations"
      [] ret.op = "Conversation::lines" -> "lines"

StrictlyBefore(a, b) ==
    IF ret.op = "Noun::conversations"
    THEN a.verb < b.verb \/ (a.verb = b.verb /\ a.condition < b.condition)
    ELSE a < b

(* C2: nouns(), conversations() and lines() yield every child of the       *)
(* parent exactly once, in strictly ascending key order (a Conversation    *)
(* Key compared as (verb, condition)), and the sequence a call returned is *)
(* the sequence the same call returns again.                               *)
C2_AscendingOnce ==
    ret.op \in {"Room::nouns", "Noun::conversations", "Conversation::lines"} =>
        LET keys == YieldedKeys
            map == Deref(ret.recv.entry)[OrderedField]
        IN  /\ Len(keys) = Cardinality(DOMAIN map)
            /\ {keys[i] : i \in 1..Len(keys)} = DOMAIN map
            /\ \A i \in 1..Len(keys) - 1 : StrictlyBefore(keys[i], keys[i + 1])
            /\ \A i \in 1..Len(keys) :
                  /\ ret.out.val[i].parent = ret.recv
                  /\ ret.out.val[i].entry =
                        EntryRef(ret.recv.entry, OrderedField, keys[i])
            /\ ret.out.val =
                  CASE ret.op = "Room::nouns" -> Room_nouns(ret.recv)
                    [] ret.op = "Noun::conversations" ->
                          Noun_conversations(ret.recv)
                    [] ret.op = "Conversation::lines" ->
                          Conversation_lines(ret.recv)

(* C2 witness: conversations() has yielded two conversations whose keys    *)
(* the two field orders rank differently, (0, c) before (v, 0).            *)
C2_Witness ==
    /\ ret.op = "Noun::conversations"
    /\ Len(ret.out.val) = 2
    /\ ret.out.val[1].raw_id.verb = 0
    /\ ret.out.val[1].raw_id.condition > 0
    /\ ret.out.val[2].raw_id.verb > 0
    /\ ret.out.val[2].raw_id.condition = 0

(* C3: a key with verb 0 makes verb() return None and a key with condition *)
(* 0 makes condition() return None, whatever the verb table and the room's *)
(* condition table hold.                                                   *)
C3_ZeroMeansNone ==
    /\ (ret.op = "Conversation::verb" /\ Key_verb(ret.recv.raw_id) = 0)
          => ret.out = Returned(None)
    /\ (ret.op = "Conversation::condition" /\ Key_condition(ret.recv.raw_id) = 0)
          => ret.out = Returned(None)

(* C3 witness: verb() was called on a conversation with key verb 0 while   *)
(* the verb table holds an entry with raw id 0.                            *)
C3_Witness ==
    /\ ret.op = "Conversation::verb"
    /\ Key_verb(ret.recv.raw_id) = 0
    /\ 0 \in DOMAIN book.verbs

(* C3 witness for the condition half: condition() was called on a key with *)
(* condition 0 while the room's table holds an entry with raw id 0.        *)
C3_WitnessCondition ==
    /\ ret.op = "Conversation::condition"
    /\ Key_condition(ret.recv.raw_id) = 0
    /\ 0 \in DOMAIN Deref(ret.recv.parent.parent.entry).conditions

(* C4 (as claimed): condition() on a key whose non-zero condition has no   *)
(* entry in the room's condition table returns None and does not panic.    *)
C4_AbsentConditionIsNone ==
    (/\ ret.op = "Conversation::condition"
     /\ Key_condition(ret.recv.raw_id) # 0
     /\ Key_condition(ret.recv.raw_id) \notin
            DOMAIN Deref(ret.recv.parent.parent.entry).conditions)
        => ret.out = Returned(None)

----------------------------------------------------------------------------
(* Talkers and roles (book.rs 146-153, 286-302, 420-429, 493-526).         *)

MaxTalker == 2
TalkerIds == 1..MaxTalker
RoleIds == {"hero", "narrator"}

Talker_id(h) == <<h.raw_id>>
Role_id(h) == <<h.raw_id>>

(* Iterator::flat_map: the sequences yielded per item, one after another.  *)
RECURSIVE Flatten(_)
Flatten(seqs) ==
    IF seqs = <<>> THEN <<>> ELSE Head(seqs) \o Flatten(Tail(seqs))

Book_nouns ==
    Flatten([i \in 1..Len(Book_rooms) |-> Room_nouns(Book_rooms[i])])

Book_conversations ==
    Flatten([i \in 1..Len(Book_nouns) |-> Noun_conversations(Book_nouns[i])])

Book_lines ==
    Flatten([i \in 1..Len(Book_conversations) |->
                Conversation_lines(Book_conversations[i])])

Book_get_talker(id) ==
    LET e == BTreeMap_get(BookRef, "talkers", id[1])
    IN  IF IsSome(e) THEN Some(Handle("Talker", BookRef, id[1], Unwrap(e)))
        ELSE None

(* get_key_value: the handle's raw_id is the key the table holds.          *)
Book_get_role(id) ==
    LET e == BTreeMap_get(BookRef, "roles", id[1])
    IN  IF IsSome(e) THEN Some(Handle("Role", BookRef, Unwrap(e).key, Unwrap(e)))
        ELSE None

(* Option::unwrap where the method returns the value itself.               *)
Option_unwrap(o) ==
    IF IsSome(o) THEN Returned(Unwrap(o))
    ELSE Panicked("unwrap on None")

(* A variant that takes the first talker of the table, whatever the line   *)
(* names.                                                                  *)
Line_talker_first(line) ==
    LET keys == BTreeMap_iter(book.talkers)
    IN  IF Len(keys) = 0 THEN Option_unwrap(None)
        ELSE Option_unwrap(Book_get_talker(<<keys[1]>>))

Line_talker(line) ==
    Option_unwrap(Book_get_talker(<<Deref(line.entry).talker>>))

Talker_role(talker) ==
    Option_unwrap(Book_get_role(<<Deref(talker.entry).role_id>>))

(* self.talker().role(): a panic in talker() is the panic of role().       *)
Line_role(line) ==
    LET t == Line_talker(line)
    IN  IF t.status = "returned" THEN Talker_role(t.val) ELSE t

(* Books whose lines sit in one conversation and whose talker and role     *)
(* tables hold any entries, those the lines name or not.                   *)
TalkerMessages ==
    [room : {1}, noun : {1}, verb : {0}, condition : {0},
     seq : RawSequenceIds, talker : TalkerIds]

TalkerTables == UNION {[T -> RoleIds] : T \in SUBSET TalkerIds}

TalkerBook(ms, talkers, roles) ==
    [BuildBook(ms, {}, {}) EXCEPT
        !.talkers = [t \in DOMAIN talkers |-> [role_id |-> talkers[t]]],
        !.roles = [r \in roles |-> [name |-> r, short_name |-> r]]]

TalkerBooks ==
    {TalkerBook(ms, talkers, roles) :
        ms \in SubsetsUpTo(TalkerMessages, MaxMsgs),
        talkers \in TalkerTables,
        roles \in SUBSET RoleIds}

CallBookLines ==
    /\ ret' = Call("Book::lines", BookRef, Returned(Book_lines))
    /\ UNCHANGED <<book, cur, cliVars, toolVars>>

CallTalker ==
    /\ cur.kind = "Line"
    /\ ret' = Call("Line::talker", cur, Line_talker(cur))
    /\ UNCHANGED <<book, cur, cliVars, toolVars>>

CallRole ==
    /\ cur.kind = "Line"
    /\ ret' = Call("Line::role", cur, Line_role(cur))
    /\ UNCHANGED <<book, cur, cliVars, toolVars>>

(* The caller keeps the Talker that talker() returned.                     *)
TakeTalker ==
    /\ ret.op = "Line::talker"
    /\ ret.out.status = "returned"
    /\ cur' = ret.out.val
    /\ ret' = NoCall
    /\ UNCHANGED <<book, cliVars, toolVars>>

CallTalkerRole ==
    /\ cur.kind = "Talker"
    /\ ret' = Call("Talker::role", cur, Talker_role(cur))
    /\ UNCHANGED <<book, cur, cliVars, toolVars>>

NextTalker ==
    \/ CallBookLines
    \/ CallLines
    \/ Take
    \/ CallParent
    \/ CallTalker
    \/ CallRole
    \/ TakeTalker
    \/ CallTalkerRole

----------------------------------------------------------------------------
(* Claims about talkers and roles.                                         *)

StoredTalker(line) == Deref(line.entry).talker
StoredRole(talker_id) == book.talkers[talker_id].role_id
TalkerPresent(line) == StoredTalker(line) \in DOMAIN book.talkers
RolePresent(talker_id) == StoredRole(talker_id) \in DOMAIN book.roles

LinesOfBook == {Book_lines[i] : i \in 1..Len(Book_lines)}

(* Every line's talker has a Talker entry, every Talker's role a Role.     *)
EveryEntryPresent ==
    /\ \A line \in LinesOfBook : TalkerPresent(line)
    /\ \A t \in DOMAIN book.talkers : RolePresent(t)

IsTalkerOf(out, talker_id) ==
    /\ out.status = "returned"
    /\ out.val.kind = "Talker"
    /\ Talker_id(out.val) = <<talker_id>>
    /\ out.val.entry = EntryRef(BookRef, "talkers", talker_id)

IsRoleOf(out, talker_id) ==
    /\ out.status = "returned"
    /\ out.val.kind = "Role"
    /\ Role_id(out.val) = <<StoredRole(talker_id)>>
    /\ out.val.entry = EntryRef(BookRef, "roles", StoredRole(talker_id))

ResolvesOrFaults(line) ==
    /\ IF TalkerPresent(line)
       THEN IsTalkerOf(Line_talker(line), StoredTalker(line))
       ELSE Line_talker(line).status = "panicked"
    /\ IF TalkerPresent(line) /\ RolePresent(StoredTalker(line))
       THEN /\ IsRoleOf(Line_role(line), StoredTalker(line))
            /\ Line_role(line) = Talker_role(Line_talker(line).val)
       ELSE Line_role(line).status = "panicked"

(* C12: for every line Book::lines() has yielded, talker() returns the     *)
(* Talker whose id is the line's stored talker id, role() returns the Role *)
(* that talker().role() returns, whose id is the talker entry's role id;   *)
(* with every entry present none of these calls panics, and a call whose   *)
(* entry is missing panics.  The calls the caller made returned just that. *)
C12_TalkerRoleResolution ==
    /\ ret.op = "Book::lines" =>
          /\ \A line \in Yielded : ResolvesOrFaults(line)
          /\ EveryEntryPresent =>
                \A line \in Yielded :
                   /\ Line_talker(line).status = "returned"
                   /\ Line_role(line).status = "returned"
    /\ ret.op = "Line::talker" =>
          IF TalkerPresent(ret.recv)
          THEN IsTalkerOf(ret.out, StoredTalker(ret.recv))
          ELSE ret.out.status = "panicked"
    /\ ret.op = "Line::role" =>
          IF TalkerPresent(ret.recv) /\ RolePresent(StoredTalker(ret.recv))
          THEN IsRoleOf(ret.out, StoredTalker(ret.recv))
          ELSE ret.out.status = "panicked"
    /\ ret.op = "Talker::role" =>
          IF RolePresent(ret.recv.raw_id)
          THEN IsRoleOf(ret.out, ret.recv.raw_id)
          ELSE ret.out.status = "panicked"

(* In a Book with every entry present and two talkers, role() has returned *)
(* for a line whose talker is not the first of the table.                  *)
C12_Witness ==
    /\ ret.op = "Line::role"
    /\ ret.out.status = "returned"
    /\ \E t \in DOMAIN book.talkers : t < StoredTalker(ret.recv)
    /\ ret.recv \in LinesOfBook
    /\ EveryEntryPresent

(* talker() has panicked on a line whose talker has no entry.              *)
C12_WitnessFault ==
    /\ ret.op = "Line::talker"
    /\ ret.out.status = "panicked"

----------------------------------------------------------------------------
(* The resource commands of main.rs.                                       *)

(* Bounds of the archive.                                                  *)
MaxLocs == 2
MaxResNum == 2

ResourceTypes == {"View", "Script", "Heap"}
ResourceNums == 1..MaxResNum
CompressionMethods == {0, 1}

(* io::Result / anyhow::Result.                                            *)
Ok(v) == [ok |-> TRUE, val |-> v]
Err(e) == [ok |-> FALSE, err |-> e]

(* u8::from(ResourceType): the resource type tag.                          *)
TypeTag(t) ==
    CASE t = "View" -> 128
      [] t = "Script" -> 130
      [] t = "Heap" -> 145

ResourceId(t, n) == [type |-> t, num |-> n]

(* The payload bytes stored in the data file for a resource.               *)
StoredPayload(id) == <<TypeTag(id.type) % 16, id.num>>

(* The decode step of read_contents: pass-through for method 0, a          *)
(* decompression that changes the bytes for any other method.              *)
RECURSIVE Expand(_)
Expand(bytes) ==
    IF bytes = <<>> THEN <<>>
    ELSE <<Head(bytes), Head(bytes)>> \o Expand(Tail(bytes))

Decode(method, bytes) == IF method = 0 THEN bytes ELSE Expand(bytes)

(* A record of the data file, as the location index points at it.          *)
Locations ==
    [id : [type : ResourceTypes, num : ResourceNums],
     method : CompressionMethods, readable : BOOLEAN]

LocationBefore(a, b) ==
    \/ TypeTag(a.id.type) < TypeTag(b.id.type)
    \/ a.id.type = b.id.type /\ a.id.num < b.id.num

RECURSIVE IndexOf(_, _)
IndexOf(S, acc) ==
    IF S = {} THEN acc
    ELSE LET least == CHOOSE x \in S : \A y \in S : y = x \/ LocationBefore(x, y)
         IN  IndexOf(S \ {least}, Append(acc, least))

Archives ==
    {[map |-> "ok", data |-> "ok", index |-> IndexOf(S, <<>>)] :
        S \in {T \in SubsetsUpTo(Locations, MaxLocs) :
                  \A a, b \in T : a.id = b.id => a = b}}
    \cup {[map |-> "missing", data |-> "ok", index |-> <<>>],
          [map |-> "corrupt", data |-> "ok", index |-> <<>>],
          [map |-> "ok", data |-> "missing", index |-> <<>>]}

(* ResourceLocations::get_location and ::locations.                        *)
ResourceLocations_get_location(index, id) ==
    IF \E i \in 1..Len(index) : index[i].id = id
    THEN Some(index[CHOOSE i \in 1..Len(index) : index[i].id = id])
    ELSE None

ResourceLocations_locations(index) == index

(* DataFile::read_raw_contents and ::read_contents.                        *)
DataFile_read_raw_contents(location) ==
    IF location.readable
    THEN Ok([id |-> location.id, method |-> location.method,
             data |-> StoredPayload(location.id)])
    ELSE Err("io")

DataFile_read_contents(location) ==
    IF location.readable
    THEN Ok([id |-> location.id,
             data |-> Decode(location.method, StoredPayload(location.id))])
    ELSE Err("io")

(* Paths: PathBuf::join replaces the base when the joined path is absolute. *)
Path(abs, comps) == [abs |-> abs, comps |-> comps]
Path_join(a, b) == IF b.abs THEN b ELSE Path(a.abs, a.comps \o b.comps)

RootDir == Path(TRUE, <<"game">>)
OutputDirs == {None, Some(Path(FALSE, <<"out">>))}

(* format!("{0}.{1}", resource_id, ext)                                    *)
PatchName(resource_id, e) == Path(FALSE, <<ToString(resource_id) \o "." \o e>>)

ExtractArgs ==
    [cmd : {"extract-as-patch"}, root_dir : {RootDir},
     resource_type : ResourceTypes, resource_id : ResourceNums,
     dry_run : BOOLEAN, output_dir : OutputDirs]

ListArgs == [cmd : {"list", "read-raw-contents"}, root_dir : {RootDir}]

(* ExtractResourceAsPatch::run, lines 128-130 and 150: the path opened.    *)
OutRoot(a) == IF IsSome(a.output_dir) THEN Unwrap(a.output_dir) ELSE a.root_dir
Filename(a, e) == Path_join(OutRoot(a), PatchName(a.resource_id, e))
OpenedPath(a, e) == Path_join(a.root_dir, Filename(a, e))

(* A variant whose match has an arm for every type.                        *)
ExtOf_every_type(t) ==
    CASE t = "Script" -> Some("SCR")
      [] t = "Heap" -> Some("HEP")
      [] OTHER -> Some("BIN")

ExtOf(t) ==
    CASE t = "Script" -> Some("SCR")
      [] t = "Heap" -> Some("HEP")
      [] OTHER -> None

StaleBytes == <<9, 9, 9>>

(* The patch files on disk when the command starts: none, or one left at   *)
(* the path an extract-as-patch of these arguments would write.            *)
InitialFiles(a) ==
    {EmptyMap} \cup
    IF a.cmd = "extract-as-patch"
    THEN {(OpenedPath(a, e) :> StaleBytes) : e \in {"SCR", "HEP"}}
    ELSE {}

CliInit ==
    /\ archive \in Archives
    /\ args \in ExtractArgs \cup ListArgs
    /\ fs \in InitialFiles(args)
    /\ pc = "start"
    /\ store = None
    /\ contents = None
    /\ ext = None
    /\ patch_file = None
    /\ io = <<>>
    /\ items = <<>>
    /\ stdout = <<>>
    /\ result = None

----------------------------------------------------------------------------
(* ResourceStore (main.rs 23-54).                                          *)

(* ResourceStore::open: each `?` returns the error; `io` is what was       *)
(* touched up to there.                                                    *)
ResourceStore_open(a) ==
    IF a.map = "missing"
    THEN [res |-> Err("io"), io |-> <<"open map">>]
    ELSE IF a.data = "missing"
    THEN [res |-> Err("io"), io |-> <<"open map", "read map", "open data">>]
    ELSE IF a.map = "corrupt"
    THEN [res |-> Err("format"), io |-> <<"open map", "read map", "open data">>]
    ELSE [res |-> Ok([resource_locations |-> a.index]),
          io |-> <<"open map", "read map", "open data">>]

(* A variant that ends the sequence after the first failed item.           *)
ResourceStore_read_raw_contents_next_fused(s, pos) ==
    LET locations == ResourceLocations_locations(s.resource_locations)
    IN  IF /\ pos < Len(locations)
           /\ \A i \in 1..pos : locations[i].readable
        THEN Some(DataFile_read_raw_contents(locations[pos + 1]))
        ELSE None

(* Iterator::next of the Map over locations() that read_raw_contents       *)
(* returns, after `pos` items.                                             *)
ResourceStore_read_raw_contents_next(s, pos) ==
    LET locations == ResourceLocations_locations(s.resource_locations)
    IN  IF pos < Len(locations)
        THEN Some(DataFile_read_raw_contents(locations[pos + 1]))
        ELSE None

(* ResourceStore::read_resource: get_location(..).unwrap(), then           *)
(* read_contents(..)?.                                                     *)
ResourceStore_read_resource(s, res_type, res_num) ==
    LET location ==
            ResourceLocations_get_location(s.resource_locations,
                                           ResourceId(res_type, res_num))
    IN  IF IsSome(location)
        THEN [out |-> Returned(DataFile_read_contents(Unwrap(location))),
              io |-> <<"lookup", "read data">>]
        ELSE [out |-> Panicked("unwrap on None"), io |-> <<"lookup">>]

(* A variant that opens with create(true).truncate(true).                  *)
OpenCreateTruncate(files, path) ==
    Ok([q \in DOMAIN files \cup {path} |-> IF q = path THEN <<>> ELSE files[q]])

(* OpenOptions::new().write(true).create_new(true).open(path)              *)
OpenCreateNew(files, path) ==
    IF path \in DOMAIN files THEN Err("AlreadyExists")
    ELSE Ok((path :> <<>>) @@ files)

Exit(status, why) == Some([status |-> status, why |-> why])

----------------------------------------------------------------------------
(* The steps of the commands' run().                                       *)

(* open_main_store(..)?, the first statement of every run().               *)
OpenMainStore ==
    /\ pc = "start"
    /\ LET r == ResourceStore_open(archive)
       IN  /\ io' = io \o r.io
           /\ IF r.res.ok
              THEN /\ store' = Some(r.res.val)
                   /\ pc' = "opened"
                   /\ result' = result
              ELSE /\ store' = store
                   /\ pc' = "exit"
                   /\ result' = Exit("err", r.res.err)
    /\ UNCHANGED <<archive, fs, args, contents, ext, patch_file, items, stdout>>
    /\ UNCHANGED <<bookVars, toolVars>>

(* ListResources::run, one turn of the for loop: next(), `item?`, println. *)
ListItem ==
    /\ pc = "opened"
    /\ args.cmd = "list"
    /\ LET n == ResourceStore_read_raw_contents_next(Unwrap(store), Len(items))
       IN  /\ IsSome(n)
           /\ items' = Append(items, Unwrap(n))
           /\ IF Unwrap(n).ok
              THEN /\ stdout' = Append(stdout, Unwrap(n).val)
                   /\ UNCHANGED <<pc, result>>
              ELSE /\ pc' = "exit"
                   /\ result' = Exit("err", Unwrap(n).err)
                   /\ stdout' = stdout
    /\ UNCHANGED <<archive, fs, args, store, contents, ext, patch_file, io>>
    /\ UNCHANGED <<bookVars, toolVars>>

(* ListResources::run, the loop ends: Ok(()).                              *)
ListDone ==
    /\ pc = "opened"
    /\ args.cmd = "list"
    /\ ResourceStore_read_raw_contents_next(Unwrap(store), Len(items)) = None
    /\ pc' = "exit"
    /\ result' = Exit("ok", "")
    /\ UNCHANGED <<archive, fs, args, store, contents, ext, patch_file, io,
                   items, stdout>>
    /\ UNCHANGED <<bookVars, toolVars>>

(* A caller of read_raw_contents() that takes every item: one next().      *)
RawContentsNext ==
    /\ pc = "opened"
    /\ args.cmd = "read-raw-contents"
    /\ LET n == ResourceStore_read_raw_contents_next(Unwrap(store), Len(items))
       IN  IF IsSome(n)
           THEN /\ items' = Append(items, Unwrap(n))
                /\ UNCHANGED <<pc, result>>
           ELSE /\ items' = items
                /\ pc' = "exit"
                /\ result' = Exit("ok", "")
    /\ UNCHANGED <<archive, fs, args, store, contents, ext, patch_file, io,
                   stdout>>
    /\ UNCHANGED <<bookVars, toolVars>>

(* ExtractResourceAsPatch::run, line 119.                                  *)
ExtractReadResource ==
    /\ pc = "opened"
    /\ args.cmd = "extract-as-patch"
    /\ LET r == ResourceStore_read_resource(Unwrap(store), args.resource_type,
                                            args.resource_id)
       IN  /\ io' = io \o r.io
           /\ IF r.out.status = "panicked"
              THEN /\ pc' = "exit"
                   /\ result' = Exit("panicked", r.out.val)
                   /\ contents' = contents
              ELSE IF r.out.val.ok
              THEN /\ pc' = "read"
                   /\ contents' = Some(r.out.val.val)
                   /\ result' = result
              ELSE /\ pc' = "exit"
                   /\ result' = Exit("err", r.out.val.err)
                   /\ contents' = contents
    /\ UNCHANGED <<archive, fs, args, store, ext, patch_file, items, stdout>>
    /\ UNCHANGED <<bookVars, toolVars>>

(* ExtractResourceAsPatch::run, lines 120-126: the match on the type.      *)
ExtractMatchType ==
    /\ pc = "read"
    /\ LET e == ExtOf(args.resource_type)
       IN  IF IsSome(e)
           THEN /\ ext' = e
                /\ pc' = "matched"
                /\ result' = result
           ELSE /\ ext' = ext
                /\ pc' = "exit"
                /\ result' = Exit("err", "Unsupported resource type")
    /\ UNCHANGED <<archive, fs, args, store, contents, patch_file, io, items,
                   stdout>>
    /\ UNCHANGED <<bookVars, toolVars>>

(* A variant in which the flag is not looked at.                           *)
DryRun_ignored(a) == FALSE

(* Line 131: if self.dry_run.                                              *)
DryRun(a) == a.dry_run

(* Lines 131-137 and 159: the dry run prints and returns Ok(()).           *)
ExtractDryRun ==
    /\ pc = "matched"
    /\ DryRun(args)
    /\ stdout' = Append(stdout, <<"DRY_RUN", Filename(args, Unwrap(ext))>>)
    /\ pc' = "exit"
    /\ result' = Exit("ok", "")
    /\ UNCHANGED <<archive, fs, args, store, contents, ext, patch_file, io, items>>
    /\ UNCHANGED <<bookVars, toolVars>>

(* Lines 139-151: print, then open the patch file with create_new.         *)
ExtractCreatePatch ==
    /\ pc = "matched"
    /\ ~DryRun(args)
    /\ stdout' = Append(stdout, <<"Writing", Filename(args, Unwrap(ext))>>)
    /\ io' = Append(io, "create patch")
    /\ LET path == OpenedPath(args, Unwrap(ext))
           r == OpenCreateNew(fs, path)
       IN  IF r.ok
           THEN /\ fs' = r.val
                /\ patch_file' = Some(path)
                /\ pc' = "created"
                /\ result' = result
           ELSE /\ fs' = fs
                /\ patch_file' = patch_file
                /\ pc' = "exit"
                /\ result' = Exit("err", r.err)
    /\ UNCHANGED <<archive, args, store, contents, ext, items>>
    /\ UNCHANGED <<bookVars, toolVars>>

WriteBytes(files, path, bytes) == [files EXCEPT ![path] = @ \o bytes]

(* Line 153: patch_file.write_u8(self.resource_type.into())                *)
ExtractWriteType ==
    /\ pc = "created"
    /\ fs' = WriteBytes(fs, Unwrap(patch_file), <<TypeTag(args.resource_type)>>)
    /\ io' = Append(io, "write patch")
    /\ pc' = "wrote_type"
    /\ UNCHANGED <<archive, args, store, contents, ext, patch_file, items,
                   stdout, result>>
    /\ UNCHANGED <<bookVars, toolVars>>

(* Line 154: patch_file.write_u8(0), the header size.                      *)
ExtractWriteHeaderSize ==
    /\ pc = "wrote_type"
    /\ fs' = WriteBytes(fs, Unwrap(patch_file), <<0>>)
    /\ io' = Append(io, "write patch")
    /\ pc' = "wrote_header"
    /\ UNCHANGED <<archive, args, store, contents, ext, patch_file, items,
                   stdout, result>>
    /\ UNCHANGED <<bookVars, toolVars>>

(* Lines 155-159: write_block(contents.data()), close the file, Ok(()).    *)
ExtractWriteBlock ==
    /\ pc = "wrote_header"
    /\ fs' = WriteBytes(fs, Unwrap(patch_file), Unwrap(contents).data)
    /\ io' = Append(io, "write patch")
    /\ patch_file' = None
    /\ pc' = "exit"
    /\ result' = Exit("ok", "")
    /\ UNCHANGED <<archive, args, store, contents, ext, items, stdout>>
    /\ UNCHANGED <<bookVars, toolVars>>

Next ==
    \/ OpenMainStore
    \/ ListItem
    \/ ListDone
    \/ RawContentsNext
    \/ ExtractReadResource
    \/ ExtractMatchType
    \/ ExtractDryRun
    \/ ExtractCreatePatch
    \/ ExtractWriteType
    \/ ExtractWriteHeaderSize
    \/ ExtractWriteBlock

----------------------------------------------------------------------------
(* Claims about the resource commands.                                     *)

Extracting == args.cmd = "extract-as-patch"
Supported == {"Script", "Heap"}
Exited == pc = "exit"
RequestedLocation ==
    ResourceLocations_get_location(
        archive.index, ResourceId(args.resource_type, args.resource_id))

(* C5 (as claimed): read_resource on a (type, number) that is not in the   *)
(* index returns an error to its caller, without a panic and without a     *)
(* read of the data file.                                                  *)
C5_AbsentIsError ==
    (/\ Extracting
     /\ IsSome(store)
     /\ RequestedLocation = None
     /\ pc # "opened")
        => /\ Exited
           /\ Unwrap(result).status = "err"
           /\ \A i \in 1..Len(io) : io[i] # "read data"

(* C6 (as claimed): a successful extract that is not a dry run leaves a    *)
(* file holding [type tag, 0] followed by the payload bytes as stored in   *)
(* the data file (what read_raw_contents returns).                         *)
C6_PatchHoldsStoredBytes ==
    (/\ Extracting
     /\ ~args.dry_run
     /\ Exited
     /\ Unwrap(result).status = "ok")
        => fs[OpenedPath(args, Unwrap(ext))] =
              <<TypeTag(args.resource_type), 0>>
                 \o DataFile_read_raw_contents(Unwrap(RequestedLocation)).val.data

(* C7 (as claimed): an extract of a type other than Script or Heap is      *)
(* rejected as unsupported before any I/O: no file is opened and the       *)
(* resource is neither looked up nor read.                                 *)
C7_RejectedBeforeIO ==
    (Extracting /\ args.resource_type \notin Supported)
        => /\ io = <<>>
           /\ Exited => Unwrap(result) =
                            [status |-> "err", why |-> "Unsupported resource type"]

(* C8: an extract of a type other than Script or Heap never reaches the    *)
(* creation of the patch file: no file is opened for writing, the files on *)
(* disk are those the run started with, and the run goes on until it ends, *)
(* in failure.                                                             *)
C8_UnsupportedCreatesNothing ==
    (Extracting /\ args.resource_type \notin Supported)
        => /\ pc \in {"start", "opened", "read", "exit"}
           /\ patch_file = None
           /\ ext = None
           /\ fs \in InitialFiles(args)
           /\ \A i \in 1..Len(io) : io[i] \notin {"create patch", "write patch"}
           /\ Exited \/ ENABLED Next
           /\ Exited => Unwrap(result).status \in {"err", "panicked"}

(* C8 witness: a non-dry run on a stored, readable View has opened the     *)
(* store, read the resource and ended with the unsupported-type error.     *)
C8_Witness ==
    /\ Extracting
    /\ args.resource_type = "View"
    /\ ~args.dry_run
    /\ IsSome(contents)
    /\ Exited
    /\ Unwrap(result) = [status |-> "err", why |-> "Unsupported resource type"]

(* C9: a file that exists changes only while it is the patch file this run *)
(* created; a patch file is opened only at a path that did not exist; and  *)
(* a run that comes to open a path that exists ends there with an error    *)
(* and leaves every file as it was.                                        *)
C9_NoOverwrite ==
    [][/\ \A p \in DOMAIN fs :
            /\ p \in DOMAIN fs'
            /\ fs'[p] # fs[p] => patch_file = Some(p)
       /\ (IsSome(patch_file') /\ patch_file' # patch_file)
            => /\ Unwrap(patch_file') \notin DOMAIN fs
               /\ fs'[Unwrap(patch_file')] = <<>>
       /\ (/\ Extracting
           /\ pc = "matched"
           /\ ~args.dry_run
           /\ pc' # pc
           /\ OpenedPath(args, Unwrap(ext)) \in DOMAIN fs)
            => /\ pc' = "exit"
               /\ Unwrap(result').status = "err"
               /\ fs' = fs]_vars

(* C9 witness: a non-dry run found its target path taken and ended with    *)
(* AlreadyExists, the file there still holding the bytes it had.           *)
C9_Witness ==
    /\ Extracting
    /\ ~args.dry_run
    /\ Exited
    /\ Unwrap(result) = [status |-> "err", why |-> "AlreadyExists"]
    /\ fs[OpenedPath(args, Unwrap(ext))] = StaleBytes

OkItems == {i \in 1..Len(items) : items[i].ok}
ErrItems == {i \in 1..Len(items) : ~items[i].ok}

(* C10: the i-th item read_raw_contents() yields is the read of the i-th   *)
(* location of the index, Ok or Err; a caller that takes every item gets   *)
(* one item per location, an Err exactly at each unreadable location.      *)
C10_OneItemPerLocation ==
    /\ Len(items) <= Len(archive.index)
    /\ \A i \in 1..Len(items) :
          /\ items[i] = DataFile_read_raw_contents(archive.index[i])
          /\ items[i].ok <=> archive.index[i].readable
    /\ (args.cmd = "read-raw-contents" /\ Exited /\ IsSome(store))
          => /\ Len(items) = Len(archive.index)
             /\ ErrItems = {i \in 1..Len(archive.index) :
                               ~archive.index[i].readable}
             /\ Cardinality(OkItems) + Cardinality(ErrItems) = Len(archive.index)

(* C10 witness: every item of a two-location index was taken; the first is *)
(* the one Err and the second, after it, is Ok.                            *)
C10_Witness ==
    /\ args.cmd = "read-raw-contents"
    /\ Exited
    /\ Len(items) = MaxLocs
    /\ ErrItems = {1}
    /\ Cardinality(OkItems) = MaxLocs - 1

(* The cases in which a run fails before its file-creation step, told     *)
(* from the archive and the arguments alone.                               *)
StoreCannotBeOpened == ~ResourceStore_open(archive).res.ok
ResourceCannotBeRead ==
    \/ RequestedLocation = None
    \/ ~DataFile_read_contents(Unwrap(RequestedLocation)).ok
FailsBeforeCreation ==
    \/ StoreCannotBeOpened
    \/ ResourceCannotBeRead
    \/ args.resource_type \notin Supported

Logged(event) == \E i \in 1..Len(io) : io[i] = event
Failed == Exited /\ Unwrap(result).status # "ok"

(* C14: in a run of extract-as-patch with --dry-run no file is created or  *)
(* written in any state, the files on disk staying those of the start; a   *)
(* dry run that ends well has opened the store and read the resource; it   *)
(* fails exactly when the store cannot be opened, the resource cannot be   *)
(* read or the type is unsupported, and these are exactly the cases in     *)
(* which the run without --dry-run fails before it creates its file.       *)
C14_DryRunNoFileEffect ==
    /\ (Extracting /\ args.dry_run) =>
          /\ fs \in InitialFiles(args)
          /\ patch_file = None
          /\ ~Logged("create patch")
          /\ ~Logged("write patch")
          /\ Exited => (Failed <=> FailsBeforeCreation)
          /\ (Exited /\ ~Failed) =>
                /\ IsSome(store)
                /\ IsSome(contents)
                /\ Logged("open data")
                /\ Logged("read data")
    /\ (Extracting /\ ~args.dry_run /\ Exited) =>
          ((Failed /\ ~Logged("create patch")) <=> FailsBeforeCreation)

(* A dry run has ended well with a file already at the patch's path: the   *)
(* file is as it was.                                                      *)
C14_Witness ==
    /\ Extracting
    /\ args.dry_run
    /\ Exited
    /\ ~Failed
    /\ OpenedPath(args, Unwrap(ext)) \in DOMAIN fs
    /\ Len(stdout) = 1

(* A dry run has failed on a resource that cannot be read.                 *)
C14_WitnessFailure ==
    /\ Extracting
    /\ args.dry_run
    /\ Failed
    /\ ~StoreCannotBeOpened
    /\ ResourceCannotBeRead

----------------------------------------------------------------------------
(* TempStore (temp_store.rs): buffers staged into files of one temporary   *)
(* directory.                                                              *)

MaxStores == 2
MaxBufLen == 2

Buffers == UNION {[1..n -> {1, 2}] : n \in 0..MaxBufLen}

(* The file names the directory can hold: one more than the stores made.   *)
TempNames == 1..(MaxStores + 1)

(* A file created under one fixed name, truncating what it held.           *)
FixedTempFile(dir) == {1}

(* tempfile::NamedTempFile::new_in(dir): a file created exclusively under  *)
(* a name the directory does not hold yet; which name is not determined.   *)
NamedTempFile_new_in(dir) == {n \in TempNames : n \notin DOMAIN dir}

(* std::io::copy(&mut buffer.reader(), &mut file): the file holds the      *)
(* buffer's bytes from its start.                                          *)
io_copy(dir, path, buffer) == (path :> buffer) @@ dir

(* BlockSource::from_path: a handle on the file, its size fixed to the     *)
(* file's length when the handle is made.                                  *)
BlockSource_from_path(dir, path) ==
    IF path \in DOMAIN dir
    THEN Ok([path |-> path, size |-> Len(dir[path])])
    ELSE Err("NotFound")

BlockSource_size(source) == source.size

(* BlockSource::lock: the first size() bytes of the file, read now.        *)
BlockSource_lock(dir, source) ==
    IF source.path \notin DOMAIN dir
    THEN Err("NotFound")
    ELSE LET bytes == dir[source.path]
         IN  IF source.size <= Len(bytes)
             THEN Ok(SubSeq(bytes, 1, source.size))
             ELSE Err("UnexpectedEof")

(* Buffer::lock of an in-memory buffer: its bytes.                         *)
Buffer_lock(buffer) == Ok(buffer)

(* TempStore::create_temp_block, the file the directory gave being `path`: *)
(* the directory afterwards and the Result returned.                       *)
TempStore_create_temp_block(dir, path, buffer) ==
    LET kept == (path :> <<>>) @@ dir
        copied == io_copy(kept, path, buffer)
    IN  [dir |-> copied, out |-> BlockSource_from_path(copied, path)]

(* The caller's side of one successful store: the source is kept next to   *)
(* the buffer it was made from.                                            *)
Stored(buffer, made) ==
    /\ made.out.ok
    /\ temp_dir' = made.dir
    /\ sources' = Append(sources, made.out.val)
    /\ buffers' = Append(buffers, buffer)
    /\ UNCHANGED <<bookVars, cliVars, ffVars>>

(* TempStore::store_bytes(buffer).                                         *)
StoreBytes ==
    /\ Len(sources) < MaxStores
    /\ \E buffer \in Buffers :
       \E path \in NamedTempFile_new_in(temp_dir) :
          Stored(buffer, TempStore_create_temp_block(temp_dir, path, buffer))

(* TempStore::store(buffer): the buffer is locked first.                   *)
Store ==
    /\ Len(sources) < MaxStores
    /\ \E buffer \in Buffers :
       \E path \in NamedTempFile_new_in(temp_dir) :
          LET locked == Buffer_lock(buffer)
          IN  /\ locked.ok
              /\ Stored(buffer,
                        TempStore_create_temp_block(temp_dir, path, locked.val))

NextTemp == StoreBytes \/ Store

----------------------------------------------------------------------------
(* Claims about the TempStore.                                             *)

(* C11: every source a store returned has the size of the buffer it was    *)
(* given and reads back that buffer byte for byte, now and after every     *)
(* later store; no two sources share a file.                               *)
C11_StoreRoundTrip ==
    /\ Len(sources) = Len(buffers)
    /\ \A i \in 1..Len(sources) :
          /\ BlockSource_size(sources[i]) = Len(buffers[i])
          /\ BlockSource_lock(temp_dir, sources[i]) = Ok(buffers[i])
    /\ \A i, j \in 1..Len(sources) :
          i # j => sources[i].path # sources[j].path

(* Two stores of different, non-empty buffers have been made.              *)
C11_Witness ==
    /\ Len(sources) = 2
    /\ buffers[1] # <<>>
    /\ buffers[2] # <<>>
    /\ buffers[1] # buffers[2]
    /\ BlockSource_lock(temp_dir, sources[1]) = Ok(buffers[1])

----------------------------------------------------------------------------
(* FfmpegTool::convert (ffmpeg.rs 30-88): the task that reads the child's  *)
(* stdout line by line and reports progress.                               *)
(*                                                                         *)
(* A line is a sequence of tokens: "=" is the character '=', " " a white   *)
(* space character, any other token a run of other characters.             *)

MaxLines == 3

Whitespace == {" "}

StdoutKeys == {<<>>, <<"progress">>, <<"progress", " ">>, <<"frame">>}
StdoutValues == {<<>>, <<"end">>, <<" ", "end", " ">>, <<"a", "=", "b">>}

(* The lines the child may print: key=value lines and lines without '='.   *)
StdoutLines ==
    {k \o <<"=">> \o v : k \in StdoutKeys, v \in StdoutValues}
        \cup {<<>>, <<"progress">>, <<"end">>}

(* str::find(c): the 0-based index of the first c.                         *)
RECURSIVE str_find_from(_, _, _)
str_find_from(s, c, i) ==
    IF i >= Len(s) THEN None
    ELSE IF s[i + 1] = c THEN Some(i)
    ELSE str_find_from(s, c, i + 1)

str_find(s, c) == str_find_from(s, c, 0)

(* &s[from..to], 0-based and half-open.                                    *)
str_slice(s, from, to) == SubSeq(s, from + 1, to)

RECURSIVE str_trim_start(_)
str_trim_start(s) ==
    IF s # <<>> /\ Head(s) \in Whitespace THEN str_trim_start(Tail(s)) ELSE s

RECURSIVE str_trim_end(_)
str_trim_end(s) ==
    IF s # <<>> /\ s[Len(s)] \in Whitespace
    THEN str_trim_end(SubSeq(s, 1, Len(s) - 1))
    ELSE s

str_trim(s) == str_trim_end(str_trim_start(s))

(* What the listener receives from one on_progress call.                   *)
on_progress(done, info) == [done |-> done, progress_info |-> info]

(* A variant of the loop body that keeps the pairs after reporting them.   *)
ReadLoopBody_keeps_pairs(info, calls, line) ==
    LET eq == str_find(line, "=")
    IN  IF ~IsSome(eq) THEN [progress_info |-> info, progress |-> calls]
        ELSE LET key == str_slice(line, 0, Unwrap(eq))
                 value == str_slice(line, Unwrap(eq) + 1, Len(line))
             IN  IF key = <<"progress">>
                 THEN [progress_info |-> info,
                       progress |->
                          Append(calls,
                                 on_progress(str_trim(value) = <<"end">>, info))]
                 ELSE [progress_info |-> Append(info, <<key, str_trim(value)>>),
                       progress |-> calls]

(* The body of the while loop (62-75) on one line: the pairs held and the  *)
(* calls made afterwards.                                                  *)
ReadLoopBody(info, calls, line) ==
    LET eq == str_find(line, "=")
    IN  IF ~IsSome(eq) THEN [progress_info |-> info, progress |-> calls]
        ELSE LET eq_index == Unwrap(eq)
                 key == str_slice(line, 0, eq_index)
                 value == str_slice(line, eq_index + 1, Len(line))
             IN  IF key = <<"progress">>
                 THEN LET done == str_trim(value) = <<"end">>
                      IN  [progress_info |-> <<>>,
                           progress |-> Append(calls, on_progress(done, info))]
                 ELSE [progress_info |-> Append(info, <<key, str_trim(value)>>),
                       progress |-> calls]

(* lines.next() yields Some(Ok(line)).                                     *)
ReadLine ==
    /\ ff_pc = "reading"
    /\ Len(ff_stdout) < MaxLines
    /\ \E line \in StdoutLines :
          LET after == ReadLoopBody(progress_info, progress, line)
          IN  /\ ff_stdout' = Append(ff_stdout, line)
              /\ progress_info' = after.progress_info
              /\ progress' = after.progress
    /\ UNCHANGED <<ff_pc, bookVars, cliVars, tempVars>>

(* lines.next() yields Some(Err(_)): line.unwrap() panics.                 *)
ReadFailure ==
    /\ ff_pc = "reading"
    /\ ff_pc' = "panicked"
    /\ UNCHANGED <<ff_stdout, progress_info, progress, bookVars, cliVars, tempVars>>

(* lines.next() yields None: the loop ends and the join completes.         *)
EndOfStdout ==
    /\ ff_pc = "reading"
    /\ ff_pc' = "joined"
    /\ UNCHANGED <<ff_stdout, progress_info, progress, bookVars, cliVars, tempVars>>

(* anyhow::ensure!(status.success(), ..); Ok(()).                          *)
ConvertReturn ==
    /\ ff_pc = "joined"
    /\ ff_pc' \in {"ok", "err"}
    /\ UNCHANGED <<ff_stdout, progress_info, progress, bookVars, cliVars, tempVars>>

NextFfmpeg == ReadLine \/ ReadFailure \/ EndOfStdout \/ ConvertReturn

----------------------------------------------------------------------------
(* Claims about the progress reader.                                       *)

HasEq(line) == \E i \in 1..Len(line) : line[i] = "="
FirstEq(line) ==
    CHOOSE i \in 1..Len(line) :
        line[i] = "=" /\ \A j \in 1..(i - 1) : line[j] # "="
KeyOf(line) == [i \in 1..(FirstEq(line) - 1) |-> line[i]]
ValueOf(line) == [i \in 1..(Len(line) - FirstEq(line)) |-> line[FirstEq(line) + i]]

(* s without the white space at its two ends.                              *)
Trimmed(s) ==
    LET solid == {i \in 1..Len(s) : s[i] \notin Whitespace}
    IN  IF solid = {} THEN <<>>
        ELSE LET lo == CHOOSE i \in solid : \A j \in solid : i <= j
                 hi == CHOOSE i \in solid : \A j \in solid : j <= i
             IN  [i \in 1..(hi - lo + 1) |-> s[lo + i - 1]]

(* The indices of the lines read whose key is "progress".                  *)
ProgressLines ==
    {i \in 1..Len(ff_stdout) :
        HasEq(ff_stdout[i]) /\ KeyOf(ff_stdout[i]) = <<"progress">>}

(* The line of the n-th report, and the progress line before line i.       *)
LineOfCall(n) ==
    CHOOSE i \in ProgressLines : Cardinality({j \in ProgressLines : j <= i}) = n
ProgressBefore(i) ==
    LET earlier == {j \in ProgressLines : j < i}
    IN  IF earlier = {} THEN 0
        ELSE CHOOSE j \in earlier : \A k \in earlier : k <= j

(* The (key, trimmed value) pairs of the key=value lines lo..hi, in order. *)
RECURSIVE PairsOfLines(_, _)
PairsOfLines(lo, hi) ==
    IF lo > hi THEN <<>>
    ELSE (IF HasEq(ff_stdout[lo])
          THEN <<(<<KeyOf(ff_stdout[lo]), Trimmed(ValueOf(ff_stdout[lo]))>>)>>
          ELSE <<>>) \o PairsOfLines(lo + 1, hi)

(* C13: the listener has received one call per line read whose key is      *)
(* "progress", in line order; each call carries the (key, trimmed value)   *)
(* pairs of the key=value lines between the previous "progress" line and   *)
(* its own, lines without '=' left out, and done exactly when the trimmed  *)
(* value is "end"; the pairs after the last "progress" line are held and   *)
(* in no call.                                                             *)
C13_OneReportPerProgressLine ==
    /\ Len(progress) = Cardinality(ProgressLines)
    /\ \A n \in 1..Len(progress) :
          LET i == LineOfCall(n)
          IN  /\ progress[n].done = (Trimmed(ValueOf(ff_stdout[i])) = <<"end">>)
              /\ progress[n].progress_info =
                    PairsOfLines(ProgressBefore(i) + 1, i - 1)
    /\ progress_info =
          PairsOfLines(ProgressBefore(Len(ff_stdout) + 1) + 1, Len(ff_stdout))

(* The child has ended after a pair, a "progress" line and a "progress"    *)
(* line with value " end ": two reports, the second one done and empty.    *)
C13_Witness ==
    /\ ff_pc = "ok"
    /\ Len(progress) = 2
    /\ progress[1].progress_info # <<>>
    /\ ~progress[1].done
    /\ progress[2].done
    /\ ff_stdout[3] = <<"progress", "=", " ", "end", " ">>

(* The child has ended with a pair after its last "progress" line.         *)
C13_WitnessTrailing ==
    /\ ff_pc = "ok"
    /\ Len(progress) = 1
    /\ progress_info # <<>>

----------------------------------------------------------------------------
(* The specifications.                                                     *)

(* TempStore::new: a fresh, empty temporary directory, nothing stored.     *)
TempIdle ==
    /\ temp_dir = EmptyMap
    /\ sources = <<>>
    /\ buffers = <<>>

(* No ffmpeg child running.                                                *)
FfmpegIdle ==
    /\ ff_stdout = <<>>
    /\ progress_info = <<>>
    /\ progress = <<>>
    /\ ff_pc = "idle"

(* An empty Book, with no call made.                                       *)
BookIdle ==
    /\ book = BuildBook({}, {}, {})
    /\ cur = NoHandle
    /\ ret = NoCall

(* No command running.                                                     *)
CliIdle ==
    /\ archive = [map |-> "missing", data |-> "ok", index |-> <<>>]
    /\ args = [cmd |-> "list", root_dir |-> RootDir]
    /\ fs = EmptyMap
    /\ pc = "idle"
    /\ store = None
    /\ contents = None
    /\ ext = None
    /\ patch_file = None
    /\ io = <<>>
    /\ items = <<>>
    /\ stdout = <<>>
    /\ result = None

(* The resource commands.                                                  *)
Init == CliInit /\ BookIdle /\ TempIdle /\ FfmpegIdle

Spec == Init /\ [][Next]_vars

(* The Book API.                                                           *)
InitBook == BookInit /\ CliIdle /\ TempIdle /\ FfmpegIdle

BookSpec == InitBook /\ [][NextBook]_vars

(* The Book API on talkers and roles.                                      *)
InitTalker ==
    /\ book \in TalkerBooks
    /\ cur = NoHandle
    /\ ret = NoCall
    /\ CliIdle /\ TempIdle /\ FfmpegIdle

TalkerSpec == InitTalker /\ [][NextTalker]_vars

(* One TempStore, from TempStore::new on.                                  *)
InitTemp == TempIdle /\ BookIdle /\ CliIdle /\ FfmpegIdle

TempSpec == InitTemp /\ [][NextTemp]_vars

(* One ffmpeg child: it is spawned and the reader waits for its first      *)
(* line.                                                                   *)
InitFfmpeg ==
    /\ ff_stdout = <<>>
    /\ progress_info = <<>>
    /\ progress = <<>>
    /\ ff_pc = "reading"
    /\ BookIdle /\ CliIdle /\ TempIdle

FfmpegSpec == InitFfmpeg /\ [][NextFfmpeg]_vars

====
